---- MODULE Spec2Model ----
(***************************************************************************)
(* A model of the translation engine of solidity_translator                *)
(* (src/solidity_translator/src/transformer/model.py): vocabulary,         *)
(* tokenizers, masks, batches, attention weights, label smoothing and the  *)
(* NoamOpt learning-rate schedule.  Each component has its own             *)
(* specification (SpecVocab, SpecTokenize, ...) over the shared variables; *)
(* the variables of the other components stay at their idle values.        *)
(***************************************************************************)
EXTENDS Integers, Sequences, FiniteSets, TLC

VARIABLES
    \* ---- Vocab / get_description_vocab / get_solidity_vocab
    vpc,          \* "none" | "built" | "AssertionError"
    vin,          \* the local list `vocab` of get_*_vocab before set()
    vocab,        \* Vocab.vocab
    word2index,   \* Vocab.word2index
    index2word,   \* Vocab.index2word
    vret,         \* result of the last index_of_word / word_at_index call
    \* ---- tokenize_description / tokenize_solidity_code
    tpc,          \* "idle" | "start" | "description" | "solidity" | "re_description" | "re_solidity"
    text,         \* the argument, a sequence of characters
    tokens,       \* the returned list of tokens
    joined,       \* ' '.join(tokens)
    retokens,     \* the tokens of joined
    \* ---- subsequent_mask / Batch
    bpc,          \* "idle" | "start" | "mask_start" | "mask" | "batch"
    bsrc,         \* the src argument of Batch: rows of token ids
    btrg,         \* the trg argument of Batch
    bpad,         \* the pad argument of Batch
    batch,        \* the fields of the constructed Batch
    smask,        \* the size given to subsequent_mask and the mask returned
    \* ---- attention
    apc,          \* "idle" | "start" | "done"
    scores,       \* matmul(query, key^T) / sqrt(d_k), one row per query
    amask,        \* the mask argument: None, or rows of 0/1 per key
    p_attn,       \* F.softmax(scores, dim = -1), each weight as num / den
    \* ---- LabelSmoothing
    lpc,          \* "idle" | "start" | "done"
    lsize,        \* LabelSmoothing.size
    lpad,         \* LabelSmoothing.padding_idx
    lsmooth,      \* LabelSmoothing.smoothing, in units of 1 / SmoothSteps
    ltarget,      \* the target argument of forward: one id per row
    true_dist,    \* LabelSmoothing.true_dist, in units of 1 / DistDen(lsize)
    \* ---- NoamOpt
    npc,          \* position in NoamOpt.step: "idle" | "ready" | "incremented"
                  \*   | "rated" | "assigned" | "stored" | "ZeroDivisionError"
    model_size,   \* NoamOpt.model_size
    factor,       \* NoamOpt.factor
    warmup,       \* NoamOpt.warmup
    n_step,       \* NoamOpt._step
    n_rate,       \* NoamOpt._rate
    rate,         \* the local `rate` of NoamOpt.step
    lr,           \* p['lr'] of every group of optimizer.param_groups
    updates,      \* the lr's each optimizer.step() ran with, oldest first
    calls,        \* number of calls of NoamOpt.step begun
    n_query,      \* the last rate(step) asked with an explicit step
    \* ---- batch_size_fn
    gpc,          \* "idle" | "run"
    g_defined,    \* whether the module globals below exist yet
    max_src_in_batch,  \* the module global
    max_tgt_in_batch,  \* the module global
    pcount,       \* per batch-building pass: the count of its last call
    own_src,      \* per pass: longest source of its own current batch
    own_tgt,      \* per pass: longest target + 2 of its own current batch
    bs_ret,       \* the last call of batch_size_fn and what it returned
    \* ---- write_items_to_file / load_contract_codes
    fpc,          \* "idle" | "start" | "written" | "loaded"
    items,        \* the items argument of write_items_to_file
    file,         \* the content of the file, a sequence of characters
    loaded        \* what load_contract_codes returned, or the error raised

vocabVars == <<vpc, vin, vocab, word2index, index2word, vret>>

tokVars == <<tpc, text, tokens, joined, retokens>>

batchVars == <<bpc, bsrc, btrg, bpad, batch, smask>>

attnVars == <<apc, scores, amask, p_attn>>

lsVars == <<lpc, lsize, lpad, lsmooth, ltarget, true_dist>>

noamVars ==
    <<npc, model_size, factor, warmup, n_step, n_rate, rate, lr, updates, calls, n_query>>

bsVars ==
    <<gpc, g_defined, max_src_in_batch, max_tgt_in_batch, pcount, own_src, own_tgt, bs_ret>>

fileVars == <<fpc, items, file, loaded>>

vars == <<vocabVars, tokVars, batchVars, attnVars, lsVars, noamVars, bsVars, fileVars>>

\* What the actions of one component leave alone.
NotVocab == <<tokVars, batchVars, attnVars, lsVars, noamVars, bsVars, fileVars>>

NotTok == <<vocabVars, batchVars, attnVars, lsVars, noamVars, bsVars, fileVars>>

NotBatch == <<vocabVars, tokVars, attnVars, lsVars, noamVars, bsVars, fileVars>>

NotAttn == <<vocabVars, tokVars, batchVars, lsVars, noamVars, bsVars, fileVars>>

NotLs == <<vocabVars, tokVars, batchVars, attnVars, noamVars, bsVars, fileVars>>

NotNoam == <<vocabVars, tokVars, batchVars, attnVars, lsVars, bsVars, fileVars>>

NotBs == <<vocabVars, tokVars, batchVars, attnVars, lsVars, noamVars, fileVars>>

NotFile == <<vocabVars, tokVars, batchVars, attnVars, lsVars, noamVars, bsVars>>

(***************************************************************************)
(* General helpers                                                         *)
(***************************************************************************)
Range(s) == {s[i] : i \in 1..Len(s)}

Max(a, b) == IF a >= b THEN a ELSE b

Min(a, b) == IF a <= b THEN a ELSE b

\* All sequences over S of length 0..n.
SeqsUpTo(S, n) == UNION {[1..k -> S] : k \in 0..n}

(***************************************************************************)
(* Vocabulary                                                              *)
(***************************************************************************)
\* Bounds of the vocabulary inputs.
MaxNames == 2      \* longest allowed_variable_names list
MaxNum == 1        \* largest end of number_range
MaxNeg == 1        \* number_range starts at -MaxNeg or above
MaxSeed == 1       \* hash seeds 0..MaxSeed of the set's iteration order

\* Tokens the allowed_variable_names argument is drawn from: two names and
\* one token that also is a fixed structural token.
NameTokens == {"a", "["}

NameLists == SeqsUpTo(NameTokens, MaxNames)

\* The syntax_tokens argument: empty, or keywords one of which is also a name.
SyntaxLists == {<< >>, <<"uint", "a">>}

\* Expression.get_*_vocab() + Template.get_*_vocab(): lists of strings of
\* the template/expression generator.
ExpressionVocabs == {<< >>, <<"the", "of", "the">>}

\* The literal list of get_description_vocab.
DescriptionFixed ==
    <<"unk_tkn", "pad_tkn", "[", "]", "contract", "function", "for", ":", ",", ".">>

\* The literal list of get_solidity_vocab.
SolidityFixed ==
    <<"unk_tkn", "pad_tkn", "[", "]", "(", ")", "{", "}", ";", ".", ",">>

Digits == <<"0", "1", "2", "3", "4", "5", "6", "7", "8", "9">>

RECURSIVE NatToStr(_)
NatToStr(n) ==
    IF n < 10 THEN Digits[n + 1]
    ELSE NatToStr(n \div 10) \o Digits[(n % 10) + 1]

\* str(n) of an integer: decimal digits, "-" in front of a negative one.
IntToStr(n) == IF n < 0 THEN "-" \o NatToStr(0 - n) ELSE NatToStr(n)

\* np.arange(lo, hi): lo, lo+1, ..., hi-1.
Arange(lo, hi) == [i \in 1..Max(hi - lo, 0) |-> lo + i - 1]

\* list(map(lambda n: str(n), np.arange(lo, hi)))
NumberTokens(lo, hi) == [i \in 1..Max(hi - lo, 0) |-> IntToStr(Arange(lo, hi)[i])]

\* Every token a vocabulary of the model can hold, in a fixed order; the
\* position of a token in it stands for the token's hash value.
TokenUniverse ==
    SolidityFixed
    \o <<"contract", "function", "for", ":">>
    \o <<"a", "uint", "the", "of">>
    \o NumberTokens(0 - (MaxNeg + 1), MaxNum + 1)

HashOf(t) == CHOOSE i \in 1..Len(TokenUniverse) : TokenUniverse[i] = t

RECURSIVE Pow2AtLeast(_, _)
Pow2AtLeast(n, p) == IF p >= n THEN p ELSE Pow2AtLeast(n, 2 * p)

\* Size of the hash table of the set: a power of two.
TableSize == Pow2AtLeast(Len(TokenUniverse) + 1, 8)

\* Slot of a token in the table under a hash seed (multiplying by an odd
\* number is a bijection modulo a power of two: no two tokens collide).
Slot(t, seed) == (HashOf(t) * (2 * seed + 1) + seed) % TableSize

RECURSIVE SlotOrder(_, _, _)
SlotOrder(S, seed, slot) ==
    IF slot >= TableSize THEN << >>
    ELSE LET here == {t \in S : Slot(t, seed) = slot}
         IN (IF here = {} THEN << >> ELSE <<CHOOSE t \in here : TRUE>>)
            \o SlotOrder(S, seed, slot + 1)

\* list(set(v)): the distinct elements of v, in the iteration order of the
\* set, which depends on the hash seed of the process.
ListOfSetNoDedup(v, seed) == v

ListOfSet(v, seed) == SlotOrder(Range(v), seed, 0)

\* Vocab.__init__: the loop over self.vocab with the counter cnt; a later
\* occurrence of a word overwrites its word2index entry.
Word2IndexOf(v) ==
    [w \in Range(v) |->
        (CHOOSE i \in 1..Len(v) :
            v[i] = w /\ \A j \in 1..Len(v) : v[j] = w => j <= i) - 1]

Index2WordOf(v) == [i \in 0..(Len(v) - 1) |-> v[i + 1]]

\* Python's dict[key]: the value, or KeyError raised to the caller.
DictGet(d, k) ==
    IF k \in DOMAIN d
    THEN [raised |-> FALSE, val |-> d[k]]
    ELSE [raised |-> TRUE, val |-> "KeyError"]

\* The record of a call: the method, its argument and what came back.
Call(op, arg, res) == [op |-> op, arg |-> arg, raised |-> res.raised, val |-> res.val]

NoCall == [op |-> "none", arg |-> "none", raised |-> FALSE, val |-> "none"]

VocabIdle ==
    /\ vpc = "idle"
    /\ vin = << >>
    /\ vocab = << >>
    /\ word2index = << >>
    /\ index2word = << >>
    /\ vret = NoCall

VocabInit ==
    /\ vpc = "none"
    /\ vin = << >>
    /\ vocab = << >>
    /\ word2index = << >>
    /\ index2word = << >>
    /\ vret = NoCall

\* The list built by get_description_vocab before set() (lines 475-483).
DescriptionList(names, expr, syntax, lo, hi) ==
    DescriptionFixed \o names \o expr \o syntax \o NumberTokens(lo, hi)

\* The list built by get_solidity_vocab before set() (lines 489-497).
SolidityList(names, expr, syntax, lo, hi) ==
    SolidityFixed \o names \o expr \o syntax \o NumberTokens(lo, hi)

\* Vocab(list(set(vocab))), as the new values of the Vocab's fields.
NewVocab(v, seed) ==
    LET l == ListOfSet(v, seed)
    IN <<l, Word2IndexOf(l), Index2WordOf(l)>>

RangeEnds == (0 - MaxNeg)..MaxNum

GetDescriptionVocab ==
    /\ vpc = "none"
    /\ \E names \in NameLists, expr \in ExpressionVocabs, syntax \in SyntaxLists,
          lo \in RangeEnds, hi \in RangeEnds, seed \in 0..MaxSeed :
        IF lo < hi
        THEN LET v == DescriptionList(names, expr, syntax, lo, hi)
                 new == NewVocab(v, seed)
             IN /\ vpc' = "built"
                /\ vin' = v
                /\ vocab' = new[1]
                /\ word2index' = new[2]
                /\ index2word' = new[3]
        ELSE /\ vpc' = "AssertionError"
             /\ UNCHANGED <<vin, vocab, word2index, index2word>>
    /\ UNCHANGED vret
    /\ UNCHANGED NotVocab

GetSolidityVocab ==
    /\ vpc = "none"
    /\ \E names \in NameLists, expr \in ExpressionVocabs, syntax \in SyntaxLists,
          lo \in RangeEnds, hi \in RangeEnds, seed \in 0..MaxSeed :
        IF lo < hi
        THEN LET v == SolidityList(names, expr, syntax, lo, hi)
                 new == NewVocab(v, seed)
             IN /\ vpc' = "built"
                /\ vin' = v
                /\ vocab' = new[1]
                /\ word2index' = new[2]
                /\ index2word' = new[3]
        ELSE /\ vpc' = "AssertionError"
             /\ UNCHANGED <<vin, vocab, word2index, index2word>>
    /\ UNCHANGED vret
    /\ UNCHANGED NotVocab

\* Tokens looked up: every token of the universe (in the vocabulary or not).
QueryTokens == Range(TokenUniverse)

IndexOfWord ==
    /\ vpc = "built"
    /\ \E w \in QueryTokens : vret' = Call("index_of_word", w, DictGet(word2index, w))
    /\ UNCHANGED <<vpc, vin, vocab, word2index, index2word>>
    /\ UNCHANGED NotVocab

WordAtIndex ==
    /\ vpc = "built"
    /\ \E i \in 0..Len(vocab) : vret' = Call("word_at_index", i, DictGet(index2word, i))
    /\ UNCHANGED <<vpc, vin, vocab, word2index, index2word>>
    /\ UNCHANGED NotVocab

VocabNext ==
    \/ GetDescriptionVocab
    \/ GetSolidityVocab
    \/ IndexOfWord
    \/ WordAtIndex

(***************************************************************************)
(* Tokenizers                                                              *)
(***************************************************************************)
MaxTextLen == 3    \* longest input string

\* Characters of the input strings: letters of both cases, the space and
\* punctuation of both tokenizers.
Chars == {"a", "B", " ", ":", "[", ".", "(", ";"}

Texts == SeqsUpTo(Chars, MaxTextLen)

UpperCase == <<"A", "B">>

LowerCase == <<"a", "b">>

\* str.lower() of one character.
LowerChar(c) ==
    IF \E i \in 1..Len(UpperCase) : UpperCase[i] = c
    THEN LowerCase[CHOOSE i \in 1..Len(UpperCase) : UpperCase[i] = c]
    ELSE c

\* str.lower()
Lower(s) == [i \in 1..Len(s) |-> LowerChar(s[i])]

\* str.replace(c, r) for a one-character pattern c: every occurrence, left
\* to right.
RECURSIVE Replace(_, _, _)
Replace(s, c, r) ==
    IF s = << >> THEN << >>
    ELSE (IF Head(s) = c THEN r ELSE <<Head(s)>>) \o Replace(Tail(s), c, r)

\* str.split(' '): the pieces between single spaces, empty pieces included;
\* the empty string gives [''].
RECURSIVE Split(_)
Split(s) ==
    IF \A i \in 1..Len(s) : s[i] # " " THEN <<s>>
    ELSE LET i == CHOOSE k \in 1..Len(s) :
                    s[k] = " " /\ \A j \in 1..(k - 1) : s[j] # " "
         IN <<SubSeq(s, 1, i - 1)>> \o Split(SubSeq(s, i + 1, Len(s)))

\* str.strip(' ')
RECURSIVE Strip(_)
Strip(s) ==
    IF s = << >> THEN s
    ELSE IF Head(s) = " " THEN Strip(Tail(s))
    ELSE IF s[Len(s)] = " " THEN Strip(SubSeq(s, 1, Len(s) - 1))
    ELSE s

\* list(map(lambda s: s.strip(' '), text.lower().split(' ')))
SplitTokens(s) ==
    LET pieces == Split(Lower(s))
    IN [i \in 1..Len(pieces) |-> Strip(pieces[i])]

\* while '' in tokens: tokens.remove('')
RECURSIVE RemoveEmpty(_)
RemoveEmpty(ts) ==
    IF \A i \in 1..Len(ts) : ts[i] # << >> THEN ts
    ELSE LET i == CHOOSE k \in 1..Len(ts) :
                    ts[k] = << >> /\ \A j \in 1..(k - 1) : ts[j] # << >>
         IN RemoveEmpty(SubSeq(ts, 1, i - 1) \o SubSeq(ts, i + 1, Len(ts)))

\* tokenize_description
tokenize_description(s) ==
    LET t1 == Replace(s, ":", <<" ", ":">>)
        t2 == Replace(t1, "[", <<"[", " ">>)
        t3 == Replace(t2, "]", <<" ", "]">>)
        t4 == Replace(t3, ",", <<" ", ",">>)
        t5 == Replace(t4, ".", <<" ", ".", " ">>)
    IN SplitTokens(t5)

\* tokenize_solidity_code
tokenize_solidity_code(s) ==
    LET t1 == Replace(s, "{", <<" ", "{", " ">>)
        t2 == Replace(t1, "}", <<" ", "}", " ">>)
        t3 == Replace(t2, "(", <<" ", "(", " ">>)
        t4 == Replace(t3, ")", <<" ", ")", " ">>)
        t5 == Replace(t4, ".", <<" ", ".", " ">>)
        t6 == Replace(t5, ";", <<" ", ";", " ">>)
        t7 == Replace(t6, ",", <<" ", ",", " ">>)
    IN RemoveEmpty(SplitTokens(t7))

\* ' '.join(ts)
RECURSIVE Join(_)
Join(ts) ==
    IF ts = << >> THEN << >>
    ELSE IF Len(ts) = 1 THEN ts[1]
    ELSE ts[1] \o <<" ">> \o Join(Tail(ts))

TokIdle ==
    /\ tpc = "idle"
    /\ text = << >>
    /\ tokens = << >>
    /\ joined = << >>
    /\ retokens = << >>

TokInit ==
    /\ tpc = "start"
    /\ text \in Texts
    /\ tokens = << >>
    /\ joined = << >>
    /\ retokens = << >>

TokenizeDescription ==
    /\ tpc = "start"
    /\ tokens' = tokenize_description(text)
    /\ tpc' = "description"
    /\ UNCHANGED <<text, joined, retokens>>
    /\ UNCHANGED NotTok

TokenizeSolidityCode ==
    /\ tpc = "start"
    /\ tokens' = tokenize_solidity_code(text)
    /\ tpc' = "solidity"
    /\ UNCHANGED <<text, joined, retokens>>
    /\ UNCHANGED NotTok

\* The tokens joined with single spaces and tokenized again.
RetokenizeDescription ==
    /\ tpc = "description"
    /\ joined' = Join(tokens)
    /\ retokens' = tokenize_description(Join(tokens))
    /\ tpc' = "re_description"
    /\ UNCHANGED <<text, tokens>>
    /\ UNCHANGED NotTok

RetokenizeSolidityCode ==
    /\ tpc = "solidity"
    /\ joined' = Join(tokens)
    /\ retokens' = tokenize_solidity_code(Join(tokens))
    /\ tpc' = "re_solidity"
    /\ UNCHANGED <<text, tokens>>
    /\ UNCHANGED NotTok

TokNext ==
    \/ TokenizeDescription
    \/ TokenizeSolidityCode
    \/ RetokenizeDescription
    \/ RetokenizeSolidityCode

(***************************************************************************)
(* subsequent_mask and Batch                                               *)
(***************************************************************************)
MaxMaskSize == 4   \* largest size given to subsequent_mask directly
MaxSrcLen == 2     \* longest row of src
MaxTrgLen == 3     \* longest row of trg

\* Token ids of the batches; the pad id is one of them.
TokenIds == {0, 1}

\* Numbers of rows of a batch.
BatchSizes == {1, 2}

\* A tensor of shape rows x cols with entries in S.
Tensors(rows, cols, S) == [1..rows -> [1..cols -> S]]

\* np.ones((1, size, size))
Ones(size) == [b \in 1..1 |-> [i \in 1..size |-> [j \in 1..size |-> 1]]]

\* np.triu(m, k): the entries on and above the k-th diagonal, 0 elsewhere.
Triu(m, k) ==
    [b \in 1..Len(m) |->
        [i \in 1..Len(m[b]) |->
            [j \in 1..Len(m[b][i]) |-> IF j - i >= k THEN m[b][i][j] ELSE 0]]]

\* .astype('uint8')
AsUint8(m) ==
    [b \in 1..Len(m) |->
        [i \in 1..Len(m[b]) |-> [j \in 1..Len(m[b][i]) |-> m[b][i][j] % 256]]]

\* tensor == 0, element by element
EqZero(m) ==
    [b \in 1..Len(m) |->
        [i \in 1..Len(m[b]) |-> [j \in 1..Len(m[b][i]) |-> m[b][i][j] = 0]]]

\* subsequent_mask with the diagonal masked as well (k = 0).
subsequent_mask_k0(size) == EqZero(AsUint8(Triu(Ones(size), 0)))

\* subsequent_mask
subsequent_mask(size) == EqZero(AsUint8(Triu(Ones(size), 1)))

\* (t != pad).unsqueeze(-2): shape rows x 1 x cols.
NotPadUnsqueezed(t, pad) ==
    [b \in 1..Len(t) |-> [i \in 1..1 |-> [j \in 1..Len(t[b]) |-> t[b][j] # pad]]]

\* The size of a broadcast dimension: a size of 1 stretches to the other.
BroadcastDim(a, b) == IF a = 1 THEN b ELSE a

\* The index into a dimension of size n for the broadcast index i.
BroadcastIdx(n, i) == IF n = 1 THEN 1 ELSE i

\* x & y of two 3-dimensional boolean tensors, with broadcasting.
BroadcastAnd(x, y) ==
    [b \in 1..BroadcastDim(Len(x), Len(y)) |->
        LET xb == x[BroadcastIdx(Len(x), b)]
            yb == y[BroadcastIdx(Len(y), b)]
        IN [i \in 1..BroadcastDim(Len(xb), Len(yb)) |->
               LET xi == xb[BroadcastIdx(Len(xb), i)]
                   yi == yb[BroadcastIdx(Len(yb), i)]
               IN [j \in 1..BroadcastDim(Len(xi), Len(yi)) |->
                      xi[BroadcastIdx(Len(xi), j)] /\ yi[BroadcastIdx(Len(yi), j)]]]]

\* tgt.size(-1)
LastSize(t) == Len(t[1])

\* Batch.make_std_mask without the causal mask.
make_std_mask_pad_only(tgt, pad) == NotPadUnsqueezed(tgt, pad)

\* Batch.make_std_mask
make_std_mask(tgt, pad) ==
    BroadcastAnd(NotPadUnsqueezed(tgt, pad), subsequent_mask(LastSize(tgt)))

\* t[:, :-1]
DropLast(t) == [b \in 1..Len(t) |-> SubSeq(t[b], 1, Len(t[b]) - 1)]

\* t[:, 1:]
DropFirst(t) == [b \in 1..Len(t) |-> SubSeq(t[b], 2, Len(t[b]))]

RECURSIVE SumSeq(_)
SumSeq(s) == IF s = << >> THEN 0 ELSE Head(s) + SumSeq(Tail(s))

\* (t != pad).data.sum()
CountNotPad(t, pad) ==
    SumSeq([b \in 1..Len(t) |->
        SumSeq([j \in 1..Len(t[b]) |-> IF t[b][j] # pad THEN 1 ELSE 0])])

NoBatch == [built |-> FALSE]

NoMask == [size |-> 0, mask |-> << >>]

BatchIdle ==
    /\ bpc = "idle"
    /\ bsrc = << >>
    /\ btrg = << >>
    /\ bpad = 0
    /\ batch = NoBatch
    /\ smask = NoMask

\* Either the arguments of a Batch, or a caller about to build a mask.
BatchInit ==
    /\ batch = NoBatch
    /\ smask = NoMask
    /\ \/ /\ bpc = "start"
          /\ \E n \in BatchSizes :
                /\ bsrc \in UNION {Tensors(n, l, TokenIds) : l \in 0..MaxSrcLen}
                /\ btrg \in UNION {Tensors(n, l, TokenIds) : l \in 0..MaxTrgLen}
          /\ bpad \in TokenIds
       \/ /\ bpc = "mask_start"
          /\ bsrc = << >>
          /\ btrg = << >>
          /\ bpad = 0

SubsequentMask ==
    /\ bpc = "mask_start"
    /\ \E size \in 0..MaxMaskSize :
          smask' = [size |-> size, mask |-> subsequent_mask(size)]
    /\ bpc' = "mask"
    /\ UNCHANGED <<bsrc, btrg, bpad, batch>>
    /\ UNCHANGED NotBatch

\* Batch.__init__(src, trg, pad) with a trg.
BatchConstruct ==
    /\ bpc = "start"
    /\ batch' = [built |-> TRUE,
                 src |-> bsrc,
                 src_mask |-> NotPadUnsqueezed(bsrc, bpad),
                 trg |-> DropLast(btrg),
                 trg_y |-> DropFirst(btrg),
                 trg_mask |-> make_std_mask(DropLast(btrg), bpad),
                 ntokens |-> CountNotPad(DropFirst(btrg), bpad)]
    /\ bpc' = "batch"
    /\ UNCHANGED <<bsrc, btrg, bpad, smask>>
    /\ UNCHANGED NotBatch

BatchNext ==
    \/ SubsequentMask
    \/ BatchConstruct

(***************************************************************************)
(* attention                                                               *)
(*                                                                         *)
(* One batch element and one head: MultiHeadedAttention.forward hands the  *)
(* same mask to every head (mask.unsqueeze(1)) and the softmax runs over   *)
(* the keys of each query row on its own.  The scores are the input; the   *)
(* weights are the softmax of line 201, before the optional dropout (the   *)
(* identity in evaluation mode) and the product with value.                *)
(*                                                                         *)
(* Floating point is modelled in fixed point with base 2: exp(d), d <= 0,  *)
(* is 2^d held with FracBits fractional bits, and underflows to exactly 0  *)
(* below 2^-FracBits, as exp underflows to 0.0 in float32 below about      *)
(* e^-103.  A weight is the pair num / den of the exponential and the      *)
(* row's sum of exponentials.                                              *)
(***************************************************************************)
MaxKeys == 2       \* most key positions
FracBits == 4      \* fractional bits of the fixed-point exponential

\* The value masked_fill writes.
MaskFill == -1000000000

\* Numbers of query rows.
QueryCounts == {1, 2}

\* Score values: ordinary scores, and one as low as the fill value.
ScoreValues == {MaskFill, 0, 1}

RECURSIVE Pow2(_)
Pow2(k) == IF k = 0 THEN 1 ELSE 2 * Pow2(k - 1)

\* exp(d) for d <= 0, in fixed point: 0 once it underflows.
ExpFixed(d) == IF d < 0 - FracBits THEN 0 ELSE Pow2(FracBits + d)

RECURSIVE MaxSeq(_)
MaxSeq(r) == IF Len(r) = 1 THEN r[1] ELSE Max(r[1], MaxSeq(Tail(r)))

\* The mask row that applies to query row i: a mask of one row is
\* broadcast over the query rows.
MaskRow(m, i) == m[BroadcastIdx(Len(m), i)]

\* scores.masked_fill(mask == 0, 0): a fill value that hides nothing.
MaskedFillZero(sc, m) ==
    [i \in 1..Len(sc) |->
        [j \in 1..Len(sc[i]) |-> IF MaskRow(m, i)[j] = 0 THEN 0 ELSE sc[i][j]]]

\* scores.masked_fill(mask == 0, -1e9)
MaskedFill(sc, m) ==
    [i \in 1..Len(sc) |->
        [j \in 1..Len(sc[i]) |->
            IF MaskRow(m, i)[j] = 0 THEN MaskFill ELSE sc[i][j]]]

\* F.softmax(row, dim = -1): exp(x - max) over the sum of these.
SoftmaxRow(r) ==
    LET mx == MaxSeq(r)
        e == [j \in 1..Len(r) |-> ExpFixed(r[j] - mx)]
        z == SumSeq(e)
    IN [j \in 1..Len(r) |-> [num |-> e[j], den |-> z]]

Softmax(sc) == [i \in 1..Len(sc) |-> SoftmaxRow(sc[i])]

NoneMask == [given |-> FALSE, m |-> << >>]

AttnIdle ==
    /\ apc = "idle"
    /\ scores = << >>
    /\ amask = NoneMask
    /\ p_attn = << >>

AttnInit ==
    /\ apc = "start"
    /\ p_attn = << >>
    /\ \E lq \in QueryCounts, lk \in 1..MaxKeys :
          /\ scores \in Tensors(lq, lk, ScoreValues)
          /\ \/ amask = NoneMask
             \/ \E rows \in {1, lq} :
                   amask \in {[given |-> TRUE, m |-> mm] :
                                 mm \in Tensors(rows, lk, {0, 1})}

\* attention(query, key, value, mask): the weights p_attn.
Attention ==
    /\ apc = "start"
    /\ p_attn' = Softmax(IF amask.given THEN MaskedFill(scores, amask.m)
                                      ELSE scores)
    /\ apc' = "done"
    /\ UNCHANGED <<scores, amask>>
    /\ UNCHANGED NotAttn

AttnNext == Attention

(***************************************************************************)
(* LabelSmoothing                                                          *)
(*                                                                         *)
(* The entries of true_dist are rationals: smoothing is k / SmoothSteps,   *)
(* and every entry is held as its numerator over the common denominator    *)
(* DistDen(size) = SmoothSteps * (size - 2).                               *)
(***************************************************************************)
MaxVocabSize == 4  \* largest LabelSmoothing.size (the smallest is 3)
MaxTargets == 2    \* most rows of target
SmoothSteps == 4   \* smoothing is one of 0, 1/SmoothSteps, ..., below 1

DistDen(size) == SmoothSteps * (size - 2)

\* self.confidence = 1.0 - smoothing, over DistDen(size)
Confidence(size, k) == (SmoothSteps - k) * (size - 2)

\* self.smoothing / (self.size - 2), over DistDen(size)
SmoothingShare(size, k) == k

\* true_dist.fill_(v): rows x size entries, columns 0..size-1
Fill(rows, size, v) == [r \in 1..rows |-> [c \in 0..(size - 1) |-> v]]

\* true_dist.scatter_(1, target.unsqueeze(1), v)
Scatter(d, target, v) ==
    [r \in 1..Len(d) |-> [c \in DOMAIN d[r] |-> IF c = target[r] THEN v ELSE d[r][c]]]

\* The pad column left as it is.
ZeroColumnSkipped(d, col) == d

\* true_dist[:, col] = 0
ZeroColumn(d, col) ==
    [r \in 1..Len(d) |-> [c \in DOMAIN d[r] |-> IF c = col THEN 0 ELSE d[r][c]]]

\* torch.nonzero(target == pad): the rows whose target is pad
PadRows(target, pad) == {r \in 1..Len(target) : target[r] = pad}

\* true_dist.index_fill_(0, rows, 0.0)
ZeroRows(d, rows) ==
    [r \in 1..Len(d) |-> [c \in DOMAIN d[r] |-> IF r \in rows THEN 0 ELSE d[r][c]]]

\* The distribution LabelSmoothing.forward builds (lines 444-451).
TrueDist(size, pad, k, target) ==
    LET d1 == Fill(Len(target), size, SmoothingShare(size, k))
        d2 == Scatter(d1, target, Confidence(size, k))
        d3 == ZeroColumn(d2, pad)
    IN ZeroRows(d3, PadRows(target, pad))

LsIdle ==
    /\ lpc = "idle"
    /\ lsize = 0
    /\ lpad = 0
    /\ lsmooth = 0
    /\ ltarget = << >>
    /\ true_dist = << >>

\* A constructed LabelSmoothing and the target of a call of forward.
LsInit ==
    /\ lpc = "start"
    /\ lsize \in 3..MaxVocabSize
    /\ lpad \in 0..(lsize - 1)
    /\ lsmooth \in 0..(SmoothSteps - 1)
    /\ \E n \in 1..MaxTargets : ltarget \in [1..n -> 0..(lsize - 1)]
    /\ true_dist = << >>

\* LabelSmoothing.forward(x, target), x of shape rows x size.
LabelSmoothingForward ==
    /\ lpc = "start"
    /\ true_dist' = TrueDist(lsize, lpad, lsmooth, ltarget)
    /\ lpc' = "done"
    /\ UNCHANGED <<lsize, lpad, lsmooth, ltarget>>
    /\ UNCHANGED NotLs

LsNext == LabelSmoothingForward

(***************************************************************************)
(* NoamOpt                                                                 *)
(*                                                                         *)
(* A rate is a positive real with square roots in it; it is held exactly   *)
(* as its square, the fraction num / den: for positive rates a < b exactly *)
(* when a^2 < b^2.  step ** (-0.5) <= step * warmup ** (-1.5) exactly when *)
(* warmup^3 <= step^3.                                                     *)
(***************************************************************************)
MaxWarmup == 3     \* largest warmup
MaxSteps == 6      \* most calls of NoamOpt.step

\* Values of factor and model_size.
Factors == {1, 2}

ModelSizes == {1, 2, 4}

\* Numbers of parameter groups of the wrapped optimizer.
GroupCounts == {1, 2}

\* The number 0 (the initial _rate, and lr=0 of the wrapped optimizer).
ZeroRate == [err |-> FALSE, num |-> 0, den |-> 1]

\* 0 ** (-0.5) raises ZeroDivisionError.
RateError == [err |-> TRUE, num |-> 0, den |-> 1]

\* NoamOpt.rate with max in the place of min.
RateOfMax(f, m, w, step) ==
    IF step = 0 THEN RateError
    ELSE IF w * w * w <= step * step * step
         THEN [err |-> FALSE, num |-> f * f * step * step, den |-> m * w * w * w]
         ELSE [err |-> FALSE, num |-> f * f, den |-> m * step]

\* NoamOpt.rate(step) squared:
\* factor^2 * model_size^-1 * min(step^-1, step^2 * warmup^-3)
RateOf(f, m, w, step) ==
    IF step = 0 THEN RateError
    ELSE IF w * w * w <= step * step * step
         THEN [err |-> FALSE, num |-> f * f, den |-> m * step]
         ELSE [err |-> FALSE, num |-> f * f * step * step, den |-> m * w * w * w]

Rate(step) == RateOf(factor, model_size, warmup, step)

\* a < b for two rates
RateLess(a, b) == a.num * b.den < b.num * a.den

NoQuery == [step |-> 0, asked |-> FALSE, rate |-> ZeroRate]

NoamIdle ==
    /\ npc = "idle"
    /\ model_size = 1
    /\ factor = 1
    /\ warmup = 1
    /\ n_step = 0
    /\ n_rate = ZeroRate
    /\ rate = ZeroRate
    /\ lr = << >>
    /\ updates = << >>
    /\ calls = 0
    /\ n_query = NoQuery

\* NoamOpt.__init__ over an optimizer created with lr=0.
NoamInit ==
    /\ npc = "ready"
    /\ model_size \in ModelSizes
    /\ factor \in Factors
    /\ warmup \in 1..MaxWarmup
    /\ n_step = 0
    /\ n_rate = ZeroRate
    /\ rate = ZeroRate
    /\ \E g \in GroupCounts : lr = [i \in 1..g |-> ZeroRate]
    /\ updates = << >>
    /\ calls = 0
    /\ n_query = NoQuery

\* step, line 405: self._step += 1
StepIncrement ==
    /\ npc = "ready"
    /\ calls < MaxSteps
    /\ n_step' = n_step + 1
    /\ calls' = calls + 1
    /\ npc' = "incremented"
    /\ UNCHANGED <<model_size, factor, warmup, n_rate, rate, lr, updates, n_query>>
    /\ UNCHANGED NotNoam

\* The rate taken from the counter as it was before the increment.
StepRateBeforeIncrement ==
    /\ npc = "incremented"
    /\ rate' = Rate(n_step - 1)
    /\ npc' = IF Rate(n_step - 1).err THEN "ZeroDivisionError" ELSE "rated"
    /\ UNCHANGED <<model_size, factor, warmup, n_step, n_rate, lr, updates, calls, n_query>>
    /\ UNCHANGED NotNoam

\* step, line 406: rate = self.rate()
StepRate ==
    /\ npc = "incremented"
    /\ rate' = Rate(n_step)
    /\ npc' = IF Rate(n_step).err THEN "ZeroDivisionError" ELSE "rated"
    /\ UNCHANGED <<model_size, factor, warmup, n_step, n_rate, lr, updates, calls, n_query>>
    /\ UNCHANGED NotNoam

\* step, lines 407-408: for p in self.optimizer.param_groups: p['lr'] = rate
StepAssign ==
    /\ npc = "rated"
    /\ lr' = [i \in 1..Len(lr) |-> rate]
    /\ npc' = "assigned"
    /\ UNCHANGED <<model_size, factor, warmup, n_step, n_rate, rate, updates, calls, n_query>>
    /\ UNCHANGED NotNoam

\* step, line 409: self._rate = rate
StepStore ==
    /\ npc = "assigned"
    /\ n_rate' = rate
    /\ npc' = "stored"
    /\ UNCHANGED <<model_size, factor, warmup, n_step, rate, lr, updates, calls, n_query>>
    /\ UNCHANGED NotNoam

\* step, line 410: self.optimizer.step(), which updates with the lr's of
\* its groups as they are now
StepOptimizer ==
    /\ npc = "stored"
    /\ updates' = Append(updates, lr)
    /\ npc' = "ready"
    /\ UNCHANGED <<model_size, factor, warmup, n_step, n_rate, rate, lr, calls, n_query>>
    /\ UNCHANGED NotNoam

\* rate(step) with an explicit step, between two calls of step
QueryRate ==
    /\ npc = "ready"
    /\ \E st \in 0..(MaxSteps + 1) :
          n_query' = [step |-> st, asked |-> TRUE, rate |-> Rate(st)]
    /\ UNCHANGED <<npc, model_size, factor, warmup, n_step, n_rate, rate, lr, updates, calls>>
    /\ UNCHANGED NotNoam

NoamNext ==
    \/ StepIncrement
    \/ StepRate
    \/ StepAssign
    \/ StepStore
    \/ StepOptimizer
    \/ QueryRate

(***************************************************************************)
(* batch_size_fn                                                           *)
(*                                                                         *)
(* Two batch-building passes call batch_size_fn, each with count = 1 for   *)
(* the first example of a batch of its own and count + 1 for the next      *)
(* one; the calls of the two passes interleave in any order.  own_src and  *)
(* own_tgt record, for each pass, the maxima over the examples of its own  *)
(* current batch.                                                          *)
(***************************************************************************)
MaxExampleLen == 3 \* longest len(new.src) and len(new.trg)
MaxCount == 2      \* most examples of one batch

\* The batch-building passes.
Passes == {"A", "B"}

\* batch_size_fn(new, count, sofar) on the globals ms, mt (defined or not):
\* the new globals and the value returned, or NameError when count is not
\* 1 and the globals were never assigned.
batch_size_fn(defined, ms, mt, srclen, trglen, count) ==
    IF count # 1 /\ ~defined
    THEN [raised |-> TRUE, ms |-> ms, mt |-> mt, val |-> 0]
    ELSE LET ms0 == IF count = 1 THEN 0 ELSE ms
             mt0 == IF count = 1 THEN 0 ELSE mt
             ms1 == Max(ms0, srclen)
             mt1 == Max(mt0, trglen + 2)
         IN [raised |-> FALSE, ms |-> ms1, mt |-> mt1,
             val |-> Max(count * ms1, count * mt1)]

NoBsCall == [called |-> FALSE, pass |-> "A", count |-> 0, raised |-> FALSE, val |-> 0]

BsIdle ==
    /\ gpc = "idle"
    /\ g_defined = FALSE
    /\ max_src_in_batch = 0
    /\ max_tgt_in_batch = 0
    /\ pcount = [p \in Passes |-> 0]
    /\ own_src = [p \in Passes |-> 0]
    /\ own_tgt = [p \in Passes |-> 0]
    /\ bs_ret = NoBsCall

\* The module just imported: the globals are not assigned yet.
BsInit ==
    /\ gpc = "run"
    /\ g_defined = FALSE
    /\ max_src_in_batch = 0
    /\ max_tgt_in_batch = 0
    /\ pcount = [p \in Passes |-> 0]
    /\ own_src = [p \in Passes |-> 0]
    /\ own_tgt = [p \in Passes |-> 0]
    /\ bs_ret = NoBsCall

\* One call of batch_size_fn by a pass, for the next example of its batch
\* or for the first example of a new batch.
BatchSizeFnCall ==
    /\ gpc = "run"
    /\ \E p \in Passes, srclen \in 0..MaxExampleLen, trglen \in 0..MaxExampleLen,
          count \in 1..MaxCount :
        /\ count = 1 \/ count = pcount[p] + 1
        /\ LET r == batch_size_fn(g_defined, max_src_in_batch, max_tgt_in_batch,
                                  srclen, trglen, count)
           IN /\ g_defined' = (g_defined \/ ~r.raised)
              /\ max_src_in_batch' = r.ms
              /\ max_tgt_in_batch' = r.mt
              /\ bs_ret' = [called |-> TRUE, pass |-> p, count |-> count,
                            raised |-> r.raised, val |-> r.val]
        /\ pcount' = [pcount EXCEPT ![p] = count]
        /\ own_src' = [own_src EXCEPT
                          ![p] = IF count = 1 THEN srclen ELSE Max(@, srclen)]
        /\ own_tgt' = [own_tgt EXCEPT
                          ![p] = IF count = 1 THEN trglen + 2 ELSE Max(@, trglen + 2)]
    /\ UNCHANGED gpc
    /\ UNCHANGED NotBs

BsNext == BatchSizeFnCall

(***************************************************************************)
(* write_items_to_file / load_contract_codes                               *)
(* (src/solidity_translator/src/contract_loader_saver.py)                  *)
(***************************************************************************)
MaxItems == 2      \* most items written
MaxItemLen == 2    \* longest item

\* Number of '*' of the delimiter line.
DelimStars == 43

\* Characters of the items: a letter and the newline.
FileChars == {"a", "\n"}

ItemTexts == SeqsUpTo(FileChars, MaxItemLen)

\* '*******************************************\n'
Delimiter == [i \in 1..DelimStars |-> "*"] \o <<"\n">>

\* str.strip(chars): the characters of the set chars taken off both ends.
RECURSIVE StripChars(_, _)
StripChars(s, chars) ==
    IF s = << >> THEN s
    ELSE IF Head(s) \in chars THEN StripChars(Tail(s), chars)
    ELSE IF s[Len(s)] \in chars THEN StripChars(SubSeq(s, 1, Len(s) - 1), chars)
    ELSE s

\* The content write_items_to_file leaves in the file: for each item,
\* item.strip('') and then the delimiter line.
RECURSIVE FileContent(_)
FileContent(its) ==
    IF its = << >> THEN << >>
    ELSE StripChars(Head(its), {}) \o Delimiter \o FileContent(Tail(its))

\* Iterating over a text file: its lines, each with its newline, and the
\* rest after the last newline when there is one.
RECURSIVE Lines(_)
Lines(f) ==
    IF f = << >> THEN << >>
    ELSE IF \A i \in 1..Len(f) : f[i] # "\n" THEN <<f>>
    ELSE LET i == CHOOSE k \in 1..Len(f) :
                    f[k] = "\n" /\ \A j \in 1..(k - 1) : f[j] # "\n"
         IN <<SubSeq(f, 1, i)>> \o Lines(SubSeq(f, i + 1, Len(f)))

\* The loop of read_items_from_file over the lines ls, from the items
\* collected so far (acc) and the item being collected (item).
RECURSIVE ReadLoop(_, _, _)
ReadLoop(ls, acc, item) ==
    IF ls = << >> THEN acc
    ELSE IF Head(ls) # Delimiter
         THEN ReadLoop(Tail(ls), acc, Append(item, Head(ls)))
         ELSE ReadLoop(Tail(ls), Append(acc, item), << >>)

\* read_items_from_file
read_items_from_file(f) == ReadLoop(Lines(f), << >>, << >>)

\* reduce(lambda s1, s2: s1 + s2, ls) of a list that is not empty
RECURSIVE ConcatAll(_)
ConcatAll(ls) == IF Len(ls) = 1 THEN ls[1] ELSE ls[1] \o ConcatAll(Tail(ls))

\* load_contract_codes: reduce without an initial value raises TypeError
\* on an empty list of lines.
load_contract_codes(f) ==
    LET codes == read_items_from_file(f)
    IN IF \E k \in 1..Len(codes) : codes[k] = << >>
       THEN [raised |-> TRUE, val |-> << >>]
       ELSE [raised |-> FALSE, val |-> [k \in 1..Len(codes) |-> ConcatAll(codes[k])]]

NotLoaded == [raised |-> FALSE, val |-> << >>]

FileIdle ==
    /\ fpc = "idle"
    /\ items = << >>
    /\ file = << >>
    /\ loaded = NotLoaded

FileInit ==
    /\ fpc = "start"
    /\ items \in SeqsUpTo(ItemTexts, MaxItems)
    /\ file = << >>
    /\ loaded = NotLoaded

\* write_items_to_file(items, file_name)
WriteItemsToFile ==
    /\ fpc = "start"
    /\ file' = FileContent(items)
    /\ fpc' = "written"
    /\ UNCHANGED <<items, loaded>>
    /\ UNCHANGED NotFile

\* load_contract_codes(file_name) on the file just written
LoadContractCodes ==
    /\ fpc = "written"
    /\ loaded' = load_contract_codes(file)
    /\ fpc' = "loaded"
    /\ UNCHANGED <<items, file>>
    /\ UNCHANGED NotFile

FileNext ==
    \/ WriteItemsToFile
    \/ LoadContractCodes

(***************************************************************************)
(* Specifications                                                          *)
(***************************************************************************)
InitVocab == VocabInit /\ TokIdle /\ BatchIdle /\ AttnIdle /\ LsIdle /\ NoamIdle /\ BsIdle /\ FileIdle

SpecVocab == InitVocab /\ [][VocabNext]_vars

InitTokenize == TokInit /\ VocabIdle /\ BatchIdle /\ AttnIdle /\ LsIdle /\ NoamIdle /\ BsIdle /\ FileIdle

SpecTokenize == InitTokenize /\ [][TokNext]_vars

InitBatch == BatchInit /\ VocabIdle /\ TokIdle /\ AttnIdle /\ LsIdle /\ NoamIdle /\ BsIdle /\ FileIdle

SpecBatch == InitBatch /\ [][BatchNext]_vars

InitAttention == AttnInit /\ VocabIdle /\ TokIdle /\ BatchIdle /\ LsIdle /\ NoamIdle /\ BsIdle /\ FileIdle

SpecAttention == InitAttention /\ [][AttnNext]_vars

InitLabelSmoothing == LsInit /\ VocabIdle /\ TokIdle /\ BatchIdle /\ AttnIdle /\ NoamIdle /\ BsIdle /\ FileIdle

SpecLabelSmoothing == InitLabelSmoothing /\ [][LsNext]_vars

InitNoam == NoamInit /\ VocabIdle /\ TokIdle /\ BatchIdle /\ AttnIdle /\ LsIdle /\ BsIdle /\ FileIdle

SpecNoam == InitNoam /\ [][NoamNext]_vars

InitBatchSize ==
    BsInit /\ VocabIdle /\ TokIdle /\ BatchIdle /\ AttnIdle /\ LsIdle /\ NoamIdle
        /\ FileIdle

SpecBatchSize == InitBatchSize /\ [][BsNext]_vars

InitFile ==
    FileInit /\ VocabIdle /\ TokIdle /\ BatchIdle /\ AttnIdle /\ LsIdle /\ NoamIdle
        /\ BsIdle

SpecFile == InitFile /\ [][FileNext]_vars

Init ==
    \/ InitVocab
    \/ InitTokenize
    \/ InitBatch
    \/ InitAttention
    \/ InitLabelSmoothing
    \/ InitNoam
    \/ InitBatchSize
    \/ InitFile

Next ==
    \/ VocabNext
    \/ TokNext
    \/ BatchNext
    \/ AttnNext
    \/ LsNext
    \/ NoamNext
    \/ BsNext
    \/ FileNext

Spec == Init /\ [][Next]_vars

(***************************************************************************)
(* Properties                                                              *)
(***************************************************************************)
\* The tokens of the built vocabulary: those of the list handed to set().
VocabTokens == Range(vin)

\* C1: index_of_word of a token that was not in the vocabulary at
\* construction returns the id of 'unk_tkn' and does not raise.
C1_UnknownTokenGetsUnkId ==
    (vpc = "built" /\ vret.op = "index_of_word" /\ vret.arg \notin VocabTokens)
        => (~vret.raised /\ vret.val = word2index["unk_tkn"])

\* C2: a vocabulary built by get_description_vocab or get_solidity_vocab is
\* a bijection between its tokens and 0..|V|-1: word_at_index(index_of_word(t))
\* = t for every token, index_of_word(word_at_index(i)) = i for every id, no
\* two tokens share an id, and both methods answer within those sets.
C2_VocabBijection ==
    vpc = "built" =>
        LET V == VocabTokens
            Ids == 0..(Cardinality(V) - 1)
        IN /\ DOMAIN word2index = V
           /\ DOMAIN index2word = Ids
           /\ \A t \in V : index2word[word2index[t]] = t
           /\ \A i \in Ids : word2index[index2word[i]] = i
           /\ \A t, u \in V : word2index[t] = word2index[u] => t = u
           /\ (vret.op = "index_of_word" /\ vret.arg \in V)
                => (~vret.raised /\ vret.val \in Ids /\ index2word[vret.val] = vret.arg)
           /\ (vret.op = "word_at_index" /\ vret.arg \in Ids)
                => (~vret.raised /\ vret.val \in V /\ word2index[vret.val] = vret.arg)

\* C2 witness: a vocabulary built from a list with duplicate tokens, after
\* a successful word_at_index.
C2_Witness ==
    /\ vpc = "built"
    /\ Len(vin) > Cardinality(VocabTokens)
    /\ vret.op = "word_at_index"
    /\ ~vret.raised

\* C3: for both tokenizers, tokenizing a string, joining the tokens with
\* single spaces and tokenizing the joined string gives the same tokens.
C3_TokenizeIdempotent ==
    tpc \in {"re_description", "re_solidity"} => retokens = tokens

\* C4: for both tokenizers no returned token is the empty string, and the
\* empty string gives the empty sequence.
C4_NoEmptyToken ==
    tpc \in {"description", "solidity"} =>
        /\ \A i \in 1..Len(tokens) : tokens[i] # << >>
        /\ (text = << >> => tokens = << >>)


\* C5: subsequent_mask(L) has shape 1 x L x L and its entry (i, j) is true
\* exactly when j <= i.
C5_CausalMaskLowerTriangular ==
    bpc = "mask" =>
        LET L == smask.size
            m == smask.mask
        IN /\ Len(m) = 1
           /\ Len(m[1]) = L
           /\ \A i \in 1..L :
                /\ Len(m[1][i]) = L
                /\ \A j \in 1..L : m[1][i][j] <=> (j <= i)

\* C5 witness: a mask of size 3 or more was returned.
C5_Witness == bpc = "mask" /\ smask.size >= 3

\* C6: in a Batch, src_mask[b, 0, j] is true exactly when src[b, j] is not
\* pad; trg is the argument without its last column and trg_y the argument
\* without its first column; trg_mask[b, i, j] is true exactly when j <= i
\* and trg[b, j] is not pad.
C6_BatchMasks ==
    bpc = "batch" =>
        LET n == Len(btrg)
            ls == Len(bsrc[1])
            lt == Len(btrg[1])
            ld == IF lt = 0 THEN 0 ELSE lt - 1
        IN /\ Len(batch.src_mask) = n
           /\ Len(batch.trg) = n
           /\ Len(batch.trg_y) = n
           /\ Len(batch.trg_mask) = n
           /\ \A b \in 1..n :
                /\ Len(batch.src_mask[b]) = 1
                /\ Len(batch.src_mask[b][1]) = ls
                /\ \A j \in 1..ls : batch.src_mask[b][1][j] <=> (bsrc[b][j] # bpad)
                /\ Len(batch.trg[b]) = ld
                /\ Len(batch.trg_y[b]) = ld
                /\ \A j \in 1..ld :
                     /\ batch.trg[b][j] = btrg[b][j]
                     /\ batch.trg_y[b][j] = btrg[b][j + 1]
                /\ Len(batch.trg_mask[b]) = ld
                /\ \A i \in 1..ld :
                     /\ Len(batch.trg_mask[b][i]) = ld
                     /\ \A j \in 1..ld :
                          batch.trg_mask[b][i][j]
                              <=> (j <= i /\ batch.trg[b][j] # bpad)

\* C6 witness: a Batch of two rows whose decoder input has a pad inside the
\* causal region of a later position and a visible non-pad position, and
\* whose source has a pad.
C6_Witness ==
    /\ bpc = "batch"
    /\ Len(btrg) = 2
    /\ \E b \in 1..2 : \E j \in 1..Len(bsrc[b]) : bsrc[b][j] = bpad
    /\ \E b \in 1..2 : \E i, j \in 1..Len(batch.trg[b]) :
          /\ j < i
          /\ batch.trg[b][j] = bpad
          /\ batch.trg[b][i] # bpad
          /\ ~batch.trg_mask[b][i][j]
          /\ batch.trg_mask[b][i][i]


\* The key positions of query row i that the mask hides / leaves visible.
MaskedKeys(i) == {j \in 1..Len(scores[i]) : MaskRow(amask.m, i)[j] = 0}

VisibleKeys(i) == {j \in 1..Len(scores[i]) : MaskRow(amask.m, i)[j] # 0}

\* The sum of the weights of query row i over the key positions in K, as a
\* numerator over the row's common denominator.
WeightSum(i, K) ==
    SumSeq([j \in 1..Len(p_attn[i]) |-> IF j \in K THEN p_attn[i][j].num ELSE 0])

\* C7 as stated: with a mask, in every query row every masked key position
\* has weight 0 and the weights of the unmasked positions sum to 1, also in
\* rows whose key positions are all masked.
C7_MaskedWeightsZero ==
    (apc = "done" /\ amask.given) =>
        \A i \in 1..Len(scores) :
            /\ \A j \in MaskedKeys(i) : p_attn[i][j].num = 0
            /\ WeightSum(i, VisibleKeys(i)) = p_attn[i][1].den

\* A visible key of row i whose score is above the fill value by more than
\* the exponential can represent.
HasClearVisibleKey(i) ==
    \E j \in VisibleKeys(i) : scores[i][j] - MaskFill > FracBits

\* C7 amended: in a query row with a visible key whose score is clear of
\* the fill value, every masked key has weight 0 and the visible weights sum
\* to 1; in a row whose keys are all masked every key has the same weight
\* 1 / (number of keys), so the masked weights sum to 1.
C7_MaskedWeightsZeroUnlessAllMasked ==
    (apc = "done" /\ amask.given) =>
        \A i \in 1..Len(scores) :
            /\ HasClearVisibleKey(i) =>
                  /\ \A j \in MaskedKeys(i) : p_attn[i][j].num = 0
                  /\ WeightSum(i, VisibleKeys(i)) = p_attn[i][1].den
            /\ VisibleKeys(i) = {} =>
                  /\ \A j \in MaskedKeys(i) :
                        p_attn[i][j].num * Len(scores[i]) = p_attn[i][j].den
                  /\ WeightSum(i, MaskedKeys(i)) = p_attn[i][1].den

\* C7 witness: two query rows under a two-row mask, one row with a masked
\* and a clear visible key, the other with all keys masked.
C7_Witness ==
    /\ apc = "done"
    /\ amask.given
    /\ Len(scores) = 2
    /\ Len(amask.m) = 2
    /\ \E i, k \in 1..2 :
          /\ HasClearVisibleKey(i)
          /\ MaskedKeys(i) # {}
          /\ VisibleKeys(k) = {}


\* The sum of a row of true_dist, over DistDen(lsize).
RECURSIVE RowSum(_, _)
RowSum(row, n) == IF n = 0 THEN 0 ELSE row[n - 1] + RowSum(row, n - 1)

\* C8: in the distribution built by LabelSmoothing.forward a row whose
\* target is not pad has 1 - smoothing at the target column and
\* smoothing / (size - 2) at every other non-pad column, and sums to 1; a
\* row whose target is pad is all zero; the pad column is 0 in every row.
C8_LabelSmoothingDistribution ==
    lpc = "done" =>
        /\ Len(true_dist) = Len(ltarget)
        /\ \A r \in 1..Len(ltarget) :
             /\ DOMAIN true_dist[r] = 0..(lsize - 1)
             /\ true_dist[r][lpad] = 0
             /\ ltarget[r] # lpad =>
                  /\ true_dist[r][ltarget[r]] * SmoothSteps
                        = (SmoothSteps - lsmooth) * DistDen(lsize)
                  /\ \A c \in 0..(lsize - 1) :
                        (c # ltarget[r] /\ c # lpad) =>
                            true_dist[r][c] * (lsize - 2) * SmoothSteps
                                = lsmooth * DistDen(lsize)
                  /\ RowSum(true_dist[r], lsize) = DistDen(lsize)
             /\ ltarget[r] = lpad =>
                  \A c \in 0..(lsize - 1) : true_dist[r][c] = 0

\* C8 witness: smoothing above 0, one row with a pad target and one with
\* another target.
C8_Witness ==
    /\ lpc = "done"
    /\ lsmooth > 0
    /\ \E r, q \in 1..Len(ltarget) : ltarget[r] = lpad /\ ltarget[q] # lpad


\* C9: rate(s) < rate(s+1) whenever s >= 1 and s+1 <= warmup, rate(s) >
\* rate(s+1) whenever s >= warmup, and the largest rate is reached at step
\* = warmup and nowhere else; the same holds of the rate the optimizer ran
\* with in consecutive updates and of a rate asked with an explicit step.
C9_RateRisesThenFalls ==
    npc # "idle" =>
        /\ \A s \in 1..MaxSteps :
             /\ s + 1 <= warmup => RateLess(Rate(s), Rate(s + 1))
             /\ s >= warmup => RateLess(Rate(s + 1), Rate(s))
        /\ \A s \in 1..(MaxSteps + 1) :
             s # warmup => RateLess(Rate(s), Rate(warmup))
        /\ \A k \in 1..(Len(updates) - 1) :
             /\ k + 1 <= warmup => RateLess(updates[k][1], updates[k + 1][1])
             /\ k >= warmup => RateLess(updates[k + 1][1], updates[k][1])
        /\ (n_query.asked /\ n_query.step >= 1 /\ n_query.step # warmup) =>
             RateLess(n_query.rate, Rate(warmup))

\* C9 witness: updates on both sides of a warmup of 2 or more steps, and a
\* rate asked for a step beyond the warmup.
C9_Witness ==
    /\ npc = "ready"
    /\ warmup >= 2
    /\ Len(updates) >= warmup + 2
    /\ n_query.asked
    /\ n_query.step > warmup

\* C10: after k >= 1 calls of step the counter is k, the stored rate is
\* rate(k) and the k-th update ran with learning rate rate(k) in every
\* parameter group; within a call the counter is incremented first, the
\* rate is computed from the incremented counter, assigned to every group
\* and stored, and only then the optimizer steps: no update uses rate(0).
C10_StepOrder ==
    npc # "idle" =>
        /\ npc # "ZeroDivisionError"
        /\ npc = "ready" =>
             /\ n_step = calls
             /\ Len(updates) = calls
             /\ calls >= 1 => n_rate = Rate(calls)
        /\ npc \in {"incremented", "rated", "assigned", "stored"} =>
             /\ n_step = calls
             /\ Len(updates) = calls - 1
        /\ npc \in {"rated", "assigned", "stored"} => rate = Rate(calls)
        /\ npc \in {"assigned", "stored"} =>
             \A g \in 1..Len(lr) : lr[g] = Rate(calls)
        /\ npc = "stored" => n_rate = Rate(calls)
        /\ \A k \in 1..Len(updates) :
             /\ Len(updates[k]) = Len(lr)
             /\ \A g \in 1..Len(lr) :
                  /\ updates[k][g] = Rate(k)
                  /\ ~updates[k][g].err

\* C10 witness: three calls of step completed on an optimizer of two
\* parameter groups.
C10_Witness ==
    /\ npc = "ready"
    /\ calls = 3
    /\ Len(lr) = 2
    /\ Len(updates) = 3


\* C11: in every interleaving of the calls of two batch-building passes,
\* every call of batch_size_fn returns count * max(M_src, M_tgt), M_src the
\* longest source and M_tgt the longest target + 2 over the examples of the
\* caller's own current batch only.
C11_ReturnsOwnBatchMax ==
    (gpc = "run" /\ bs_ret.called) =>
        /\ ~bs_ret.raised
        /\ bs_ret.val = bs_ret.count * Max(own_src[bs_ret.pass], own_tgt[bs_ret.pass])


\* C12: load_contract_codes on the file written by write_items_to_file
\* returns the written items: the same number, in the same order, each
\* equal to the item written, and raises nothing.
C12_RoundTrip ==
    fpc = "loaded" => (~loaded.raised /\ loaded.val = items)

====
